---- MODULE Spec2Model ----
(***************************************************************************)
(* A model of pgrs: the SELECT builder (src/builders/select.rs), the       *)
(* WHERE-clause compiler (src/clauses/where_clause.rs), the result layer   *)
(* (src/types/row.rs) and the in-memory test driver shared by the builders *)
(* of one Querier (src/drivers/in_memory_test.rs).  SQL text is modelled   *)
(* as TLA+ strings built by concatenation, exactly as the code pushes them *)
(* into a String.                                                          *)
(***************************************************************************)
EXTENDS Integers, Sequences, FiniteSets, TLC

VARIABLES
    columns,        \* SelectBuilder.columns: Vec<ColumnRef>
    table,          \* SelectBuilder.table: Option<String>
    where_clause,   \* SelectBuilder.where_clause: Option<WhereClause>
    limit,          \* SelectBuilder.limit: Option<u64>
    phase,          \* position of the caller that owns the builder
    compiled,       \* results build_sql(&self) returned for the current builder value
    outcome,        \* Option<Result<QueryResult>>: what execute() returned
    driver_calls,   \* the (sql, params) pairs the session's driver was called with
    driver_answer,  \* Option<Result<RawQueryResult>>: what the driver call returned
    last_args,      \* per setter, Option: the argument of its latest call on the builder,
                    \* and whether a setter was called again with another argument
    w_tree,         \* WhereClause under direct compilation
    w_params,       \* the caller's Vec<SqlValue> passed as &mut params
    w_first,        \* Option: the first WhereClause::build_sql call and what it returned
    w_second,       \* Option: the second call on the same tree and what it returned
    raw,            \* RawQueryResult handed to QueryResult::from_raw
    result,         \* Option<QueryResult>
    row_out,        \* Option<Result<Row>>: what single_row() returned
    get_out,        \* the Row::get calls made on the row: a set of [column, res]
    cell_out,       \* Option: the last rows_ref()[row].get(column) on the result
    sched,          \* how the caller runs its executes: awaited in turn, or concurrently
    d_shared,       \* the InMemoryTestDriver has been put behind its Arc
    d_responses,    \* InMemoryTestDriver.responses: VecDeque<RawQueryResult>
    d_recorded,     \* InMemoryTestDriver.recorded_queries: Vec<RecordedQuery>
    d_default,      \* InMemoryTestDriver.default_response
    queued,         \* every response given to with_response / with_responses, in order
    started,        \* the tasks in the order their execute() began
    tasks           \* per task: its builder and its position inside execute()

vars == <<columns, table, where_clause, limit, phase, compiled, outcome, driver_calls,
          driver_answer, last_args,
          w_tree, w_params, w_first, w_second, raw, result, row_out, get_out, cell_out,
          sched, d_shared, d_responses, d_recorded, d_default, queued, started, tasks>>

builder_vars == <<columns, table, where_clause, limit, phase, compiled, outcome, driver_calls,
                  driver_answer, last_args>>
where_vars == <<w_tree, w_params, w_first, w_second>>
result_vars == <<raw, result, row_out, get_out, cell_out>>
driver_vars == <<sched, d_shared, d_responses, d_recorded, d_default, queued, started, tasks>>

-----------------------------------------------------------------------------
(* Bounds of the model *)

MaxCols == 2          \* longest column list given to columns()
MaxBuilds == 2        \* build_sql(&self) calls on one builder value
MaxLeaves == 3        \* Eq leaves of a tree compiled directly
MaxOffset == 1        \* largest of the small param_offset values
MaxRows == 2          \* rows of a raw result
MaxWidth == 2         \* columns of a raw result, and values of a raw row

-----------------------------------------------------------------------------
(* Option and Result *)

None == <<>>
Some(v) == <<v>>
Ok(v) == [ok |-> TRUE, val |-> v]
Err(e) == [ok |-> FALSE, err |-> e]

(* PgRsError *)
NoColumnsSpecified == [kind |-> "NoColumnsSpecified"]
NoTableSpecified == [kind |-> "NoTableSpecified"]
ConnectionFailed(detail) == [kind |-> "ConnectionFailed", detail |-> detail]
QueryFailed(detail) == [kind |-> "QueryFailed", detail |-> detail]
UnexpectedRowCount(e, a) == [kind |-> "UnexpectedRowCount", expected |-> e, actual |-> a]
ColumnNotFound(name) == [kind |-> "ColumnNotFound", name |-> name]

(* SqlValue *)
Null == [tag |-> "Null"]
Text(s) == [tag |-> "Text", text |-> s]
Int32(i) == [tag |-> "Int32", int32 |-> i]

-----------------------------------------------------------------------------
(* Integer formatting: Display for usize / u64 (decimal, no leading zeros) *)

Digit(d) == SubSeq("0123456789", d + 1, d + 1)

RECURSIVE to_string(_)
to_string(n) == IF n < 10 THEN Digit(n) ELSE to_string(n \div 10) \o Digit(n % 10)

-----------------------------------------------------------------------------
(* Column, ColumnRef and Table *)

\* A column capability: an implementation of trait Column.
ColumnCap(t, c) == [table_name |-> t, column_name |-> c]

Column_qualified_name(col) == col.table_name \o "." \o col.column_name

ColumnRef_from_column(col) == [table |-> col.table_name, column |-> col.column_name]

ColumnRef_qualified_name(ref) == ref.table \o "." \o ref.column

\* A table capability: an implementation of trait Table.
TableCap(s, t) == [schema |-> s, table_name |-> t]

Table_qualified_name(T) ==
    IF T.schema # None THEN T.schema[1] \o "." \o T.table_name ELSE T.table_name

-----------------------------------------------------------------------------
(* WhereClause *)

Eq(col, value) == [op |-> "Eq", col |-> ColumnRef_from_column(col), value |-> value]
And(l, r) == [op |-> "And", left |-> l, right |-> r]
Or(l, r) == [op |-> "Or", left |-> l, right |-> r]

\* The number written after "$" by a leaf, params being the list after the push.
\* Faulty variants: numbered before the push; offset dropped; numbered by the
\* first position of an equal value.
placeholder_number_zeroBased(param_offset, params) == param_offset + Len(params) - 1
placeholder_number_noOffset(param_offset, params) == Len(params)
placeholder_number_byPosition(param_offset, params) ==
    param_offset + CHOOSE i \in 1..Len(params) :
                       /\ params[i] = params[Len(params)]
                       /\ \A j \in 1..(i - 1) : params[j] # params[Len(params)]
placeholder_number(param_offset, params) == param_offset + Len(params)

\* The binary nodes: "(<left>) <OP> (<right>)".
\* Faulty variant: the operands are not parenthesized.
combine_bare(left_sql, op, right_sql) == left_sql \o " " \o op \o " " \o right_sql
combine(left_sql, op, right_sql) == "(" \o left_sql \o ") " \o op \o " (" \o right_sql \o ")"

\* params.push(value.clone())
\* Faulty variant: a value the list already holds is not pushed again.
Vec_push_dedup(params, value) ==
    IF \E i \in 1..Len(params) : params[i] = value THEN params ELSE Append(params, value)
Vec_push(params, value) == Append(params, value)

\* build_sql(&self, param_offset, params: &mut Vec) -> String; the value is the
\* returned fragment together with the parameter list as the call leaves it.
RECURSIVE WhereClause_build_sql(_, _, _)
WhereClause_build_sql(self, param_offset, params) ==
    CASE self.op = "Eq" ->
            LET pushed == Vec_push(params, self.value)
            IN [sql |-> ColumnRef_qualified_name(self.col) \o " = $"
                          \o to_string(placeholder_number(param_offset, pushed)),
                params |-> pushed]
      [] self.op = "And" ->
            LET l == WhereClause_build_sql(self.left, param_offset, params)
                r == WhereClause_build_sql(self.right, param_offset, l.params)
            IN [sql |-> combine(l.sql, "AND", r.sql), params |-> r.params]
      [] self.op = "Or" ->
            LET l == WhereClause_build_sql(self.left, param_offset, params)
                r == WhereClause_build_sql(self.right, param_offset, l.params)
            IN [sql |-> combine(l.sql, "OR", r.sql), params |-> r.params]

-----------------------------------------------------------------------------
(* SelectBuilder::build_sql *)

\* let mut params = Vec::new();
new_params == <<>>

\* The SELECT clause: the loop pushing ", " before every column but the first.
\* Faulty variant: a column already pushed is skipped.
RECURSIVE push_columns_dedup(_, _, _)
push_columns_dedup(cols, i, sql) ==
    IF i > Len(cols) THEN sql
    ELSE IF \E j \in 1..(i - 1) : cols[j] = cols[i] THEN push_columns_dedup(cols, i + 1, sql)
    ELSE push_columns_dedup(cols, i + 1,
                      (IF i > 1 THEN sql \o ", " ELSE sql) \o ColumnRef_qualified_name(cols[i]))
RECURSIVE push_columns(_, _, _)
push_columns(cols, i, sql) ==
    IF i > Len(cols) THEN sql
    ELSE push_columns(cols, i + 1,
                      (IF i > 1 THEN sql \o ", " ELSE sql) \o ColumnRef_qualified_name(cols[i]))

select_clause(cols) == push_columns(cols, 1, "SELECT ")

from_clause(sql, tbl) == sql \o " FROM " \o tbl

where_part(sql, wc) ==
    IF wc # None
    THEN LET w == WhereClause_build_sql(wc[1], 0, new_params)
         IN [sql |-> sql \o " WHERE " \o w.sql, params |-> w.params]
    ELSE [sql |-> sql, params |-> new_params]

\* Faulty variant: a limit of zero is taken for no limit.
limit_part_skipsZero(sql, lim) ==
    IF lim # None /\ lim[1] # 0 THEN sql \o " LIMIT " \o to_string(lim[1]) ELSE sql
limit_part(sql, lim) ==
    IF lim # None THEN sql \o " LIMIT " \o to_string(lim[1]) ELSE sql

\* Faulty variant: LIMIT pushed before WHERE.
emit_limitFirst(cols, tbl, wc, lim) ==
    LET w == where_part(limit_part(from_clause(select_clause(cols), tbl), lim), wc)
    IN [sql |-> w.sql, params |-> w.params]
\* Lines 63-92: the text and the parameters of a builder that passed validation.
emit(cols, tbl, wc, lim) ==
    LET w == where_part(from_clause(select_clause(cols), tbl), wc)
    IN [sql |-> limit_part(w.sql, lim), params |-> w.params]

\* Faulty variants: the table tested first; the table not tested.
SelectBuilder_build_sql_tableFirst(cols, tbl, wc, lim) ==
    IF tbl = None THEN Err(NoTableSpecified)
    ELSE IF Len(cols) = 0 THEN Err(NoColumnsSpecified)
    ELSE Ok(emit(cols, tbl[1], wc, lim))
SelectBuilder_build_sql_noTableCheck(cols, tbl, wc, lim) ==
    IF Len(cols) = 0 THEN Err(NoColumnsSpecified)
    ELSE Ok(emit(cols, IF tbl = None THEN "" ELSE tbl[1], wc, lim))
SelectBuilder_build_sql(cols, tbl, wc, lim) ==
    IF Len(cols) = 0 THEN Err(NoColumnsSpecified)
    ELSE IF tbl = None THEN Err(NoTableSpecified)
    ELSE Ok(emit(cols, tbl[1], wc, lim))

-----------------------------------------------------------------------------
(* Inputs of the builder *)

UsersId == ColumnCap("users", "id")
UsersName == ColumnCap("users", "name")
OrdersId == ColumnCap("orders", "id")
MissingColumn == ColumnCap("users", "missing")

Users == TableCap(None, "users")
Orders == TableCap(Some("public"), "orders")

BuilderColumns == {UsersId, UsersName, OrdersId}
Tables == {Users, Orders}
LimitValues == {0, 10, 255, 2147483647}

SeqsUpTo(S, n) == UNION {[1..k -> S] : k \in 0..n}

\* WhereClause::eq leaves and the trees and/or build from them.
Leaves == {Eq(UsersName, Text("John")), Eq(UsersId, Int32(1))}

RECURSIVE TreesWith(_)
TreesWith(n) ==
    IF n = 1 THEN Leaves
    ELSE UNION {{And(l, r) : l \in TreesWith(k), r \in TreesWith(n - k)}
                \cup {Or(l, r) : l \in TreesWith(k), r \in TreesWith(n - k)} : k \in 1..(n - 1)}

TreesUpTo(n) == UNION {TreesWith(k) : k \in 1..n}

RECURSIVE LeafValues(_)
LeafValues(t) ==
    IF t.op = "Eq" THEN <<t.value>> ELSE LeafValues(t.left) \o LeafValues(t.right)

\* What a driver may answer (trait DatabaseDriver).
RawQueryResult_new(cols, rows) == [columns |-> cols, rows |-> rows]
RawQueryResult_empty == [columns |-> <<>>, rows |-> <<>>]

DriverAnswers ==
    {Ok(RawQueryResult_empty),
     Ok(RawQueryResult_new(<<"id">>, <<>>)),
     Ok(RawQueryResult_new(<<"id", "name">>, <<<<"1", "Alice">>>>)),
     Ok(RawQueryResult_new(<<"id">>, <<<<"1">>, <<"2">>>>)),
     Err(ConnectionFailed("connection closed")),
     Err(QueryFailed("syntax error"))}

-----------------------------------------------------------------------------
(* Row and QueryResult *)

\* HashMap::insert: a later value of a key replaces the earlier one.
\* Faulty variant: the value a key already has is kept.
HashMap_insert_keepsFirst(m, k, v) == m @@ (k :> v)
HashMap_insert(m, k, v) == (k :> v) @@ m

Min(a, b) == IF a < b THEN a ELSE b

\* columns.iter().zip(values).collect::<HashMap>()
RECURSIVE zip_collect(_, _, _, _)
zip_collect(cols, vals, i, m) ==
    IF i > Min(Len(cols), Len(vals)) THEN m
    ELSE zip_collect(cols, vals, i + 1, HashMap_insert(m, cols[i], vals[i]))

Row_new(cols, vals) == [values |-> zip_collect(cols, vals, 1, <<>>)]

\* Faulty variant: looked up by table.column.
Row_get_byQualifiedName(self, column) ==
    IF Column_qualified_name(column) \in DOMAIN self.values
    THEN Ok(self.values[Column_qualified_name(column)])
    ELSE Err(ColumnNotFound(Column_qualified_name(column)))
Row_get(self, column) ==
    IF column.column_name \in DOMAIN self.values
    THEN Ok(self.values[column.column_name])
    ELSE Err(ColumnNotFound(Column_qualified_name(column)))

Row_len(self) == Cardinality(DOMAIN self.values)

\* Faulty variant: the rows collected last to first.
QueryResult_from_raw_reversed(r) ==
    [columns |-> r.columns,
     rows |-> [i \in 1..Len(r.rows) |-> Row_new(r.columns, r.rows[Len(r.rows) + 1 - i])]]
QueryResult_from_raw(r) ==
    [columns |-> r.columns,
     rows |-> [i \in 1..Len(r.rows) |-> Row_new(r.columns, r.rows[i])]]

\* Faulty variant: only an empty result is refused.
QueryResult_single_row_firstRow(self) ==
    IF Len(self.rows) < 1
    THEN Err(UnexpectedRowCount(1, Len(self.rows)))
    ELSE Ok(self.rows[1])
QueryResult_single_row(self) ==
    IF Len(self.rows) # 1
    THEN Err(UnexpectedRowCount(1, Len(self.rows)))
    ELSE Ok(self.rows[1])

QueryResult_len(self) == Len(self.rows)
QueryResult_is_empty(self) == Len(self.rows) = 0

-----------------------------------------------------------------------------
(* The builder: a session obtains a fresh builder over a fresh driver, calls the
   setters in any order, may compile it, and executes it once. *)

\* No setter has been called on the builder.
NoArgs == [columns |-> None, from |-> None, where_ |-> None, limit |-> None, again |-> FALSE]

\* The record of the calls after setter name was called with argument arg.
Called(name, arg) ==
    [last_args EXCEPT ![name] = Some(arg),
                      !.again = @ \/ last_args[name] \notin {None, Some(arg)}]

BuilderIdle ==
    /\ columns = <<>> /\ table = None /\ where_clause = None /\ limit = None
    /\ phase = "idle" /\ compiled = <<>> /\ outcome = None /\ driver_calls = <<>>
    /\ driver_answer = None /\ last_args = NoArgs

WhereIdle ==
    /\ w_tree = None /\ w_params = <<>> /\ w_first = None /\ w_second = None

ResultIdle ==
    /\ raw = None /\ result = None /\ row_out = None /\ get_out = {} /\ cell_out = None

\* A task that has not asked the Querier for a builder.
TaskIdle == [pc |-> "idle", builder |-> None, query |-> None, pos |-> 0,
             response |-> None, outcome |-> None]

DriverIdle ==
    /\ sched = "sequential" /\ d_shared = FALSE
    /\ d_responses = <<>> /\ d_recorded = <<>> /\ d_default = RawQueryResult_empty
    /\ queued = <<>> /\ started = <<>> /\ tasks = <<>>

\* SelectBuilder::new, as Querier::select calls it.
SelectBuilder_new ==
    /\ columns = <<>> /\ table = None /\ where_clause = None /\ limit = None
    /\ phase = "building" /\ compiled = <<>> /\ outcome = None /\ driver_calls = <<>>
    /\ driver_answer = None /\ last_args = NoArgs

Init == SelectBuilder_new /\ WhereIdle /\ ResultIdle /\ DriverIdle

BuilderPredicates ==
    Leaves \cup {And(Eq(UsersName, Text("John")), Eq(UsersId, Int32(1))),
                 Or(Eq(UsersId, Int32(1)), Eq(UsersId, Int32(1))),
                 And(Or(Eq(UsersName, Text("John")), Eq(UsersId, Int32(1))),
                     Eq(UsersName, Text("John")))}

Columns(cols) ==
    /\ phase = "building"
    /\ columns' = [i \in 1..Len(cols) |-> ColumnRef_from_column(cols[i])]
    /\ last_args' = Called("columns", cols)
    /\ compiled' = <<>>
    /\ UNCHANGED <<table, where_clause, limit, phase, outcome, driver_calls, driver_answer>>
    /\ UNCHANGED <<where_vars, result_vars, driver_vars>>

From(T) ==
    /\ phase = "building"
    /\ table' = Some(Table_qualified_name(T))
    /\ last_args' = Called("from", T)
    /\ compiled' = <<>>
    /\ UNCHANGED <<columns, where_clause, limit, phase, outcome, driver_calls, driver_answer>>
    /\ UNCHANGED <<where_vars, result_vars, driver_vars>>

\* Faulty variant: a second predicate is AND-ed with the one already set.
Where_andsPrevious(clause) ==
    /\ phase = "building"
    /\ where_clause' = IF where_clause = None THEN Some(clause)
                       ELSE Some(And(where_clause[1], clause))
    /\ last_args' = Called("where_", clause)
    /\ compiled' = <<>>
    /\ UNCHANGED <<columns, table, limit, phase, outcome, driver_calls, driver_answer>>
    /\ UNCHANGED <<where_vars, result_vars, driver_vars>>
Where_(clause) ==
    /\ phase = "building"
    /\ where_clause' = Some(clause)
    /\ last_args' = Called("where_", clause)
    /\ compiled' = <<>>
    /\ UNCHANGED <<columns, table, limit, phase, outcome, driver_calls, driver_answer>>
    /\ UNCHANGED <<where_vars, result_vars, driver_vars>>

Limit(n) ==
    /\ phase = "building"
    /\ limit' = Some(n)
    /\ last_args' = Called("limit", n)
    /\ compiled' = <<>>
    /\ UNCHANGED <<columns, table, where_clause, phase, outcome, driver_calls, driver_answer>>
    /\ UNCHANGED <<where_vars, result_vars, driver_vars>>

\* Faulty variant: compiling takes the limit out of the builder.
BuildSql_takesLimit ==
    /\ phase = "building"
    /\ Len(compiled) < MaxBuilds
    /\ compiled' = Append(compiled, SelectBuilder_build_sql(columns, table, where_clause, limit))
    /\ limit' = None
    /\ UNCHANGED <<columns, table, where_clause, phase, outcome, driver_calls, driver_answer,
                   last_args>>
    /\ UNCHANGED <<where_vars, result_vars, driver_vars>>
\* build_sql(&self): the builder is borrowed, the caller keeps the result.
BuildSql ==
    /\ phase = "building"
    /\ Len(compiled) < MaxBuilds
    /\ compiled' = Append(compiled, SelectBuilder_build_sql(columns, table, where_clause, limit))
    /\ UNCHANGED <<columns, table, where_clause, limit, phase, outcome, driver_calls,
                   driver_answer, last_args>>
    /\ UNCHANGED <<where_vars, result_vars, driver_vars>>

\* Faulty variant: a driver failure is answered with the empty result.
Execute_emptyOnFailure(answer) ==
    /\ phase = "building"
    /\ phase' = "executed"
    /\ LET built == SelectBuilder_build_sql(columns, table, where_clause, limit)
       IN IF ~built.ok
          THEN /\ outcome' = Some(Err(built.err))
               /\ driver_calls' = driver_calls
               /\ driver_answer' = driver_answer
          ELSE /\ driver_calls' = Append(driver_calls, built.val)
               /\ driver_answer' = Some(answer)
               /\ outcome' = Some(Ok(QueryResult_from_raw(IF answer.ok THEN answer.val
                                                           ELSE RawQueryResult_empty)))
    /\ compiled' = <<>>
    /\ UNCHANGED <<columns, table, where_clause, limit, last_args>>
    /\ UNCHANGED <<where_vars, result_vars, driver_vars>>
\* execute(self): compile, call the driver with (sql, params), materialize.
\* The fields keep the value of the builder that was consumed.
Execute(answer) ==
    /\ phase = "building"
    /\ phase' = "executed"
    /\ LET built == SelectBuilder_build_sql(columns, table, where_clause, limit)
       IN IF ~built.ok
          THEN /\ outcome' = Some(Err(built.err))
               /\ driver_calls' = driver_calls
               /\ driver_answer' = driver_answer
          ELSE /\ driver_calls' = Append(driver_calls, built.val)
               /\ driver_answer' = Some(answer)
               /\ outcome' = Some(IF answer.ok
                                   THEN Ok(QueryResult_from_raw(answer.val))
                                   ELSE Err(answer.err))
    /\ compiled' = <<>>
    /\ UNCHANGED <<columns, table, where_clause, limit, last_args>>
    /\ UNCHANGED <<where_vars, result_vars, driver_vars>>

\* The next session: a new driver, PgRsClient::with_driver, querier(), select().
NewSession ==
    /\ phase = "executed"
    /\ columns' = <<>> /\ table' = None /\ where_clause' = None /\ limit' = None
    /\ phase' = "building" /\ compiled' = <<>> /\ outcome' = None /\ driver_calls' = <<>>
    /\ driver_answer' = None /\ last_args' = NoArgs
    /\ UNCHANGED <<where_vars, result_vars, driver_vars>>

Next ==
    \/ \E cols \in SeqsUpTo(BuilderColumns, MaxCols) : Columns(cols)
    \/ \E T \in Tables : From(T)
    \/ \E clause \in BuilderPredicates : Where_(clause)
    \/ \E n \in LimitValues : Limit(n)
    \/ BuildSql
    \/ \E answer \in DriverAnswers : Execute(answer)
    \/ NewSession

Spec == Init /\ [][Next]_vars

-----------------------------------------------------------------------------
(* WhereClause::build_sql called directly: one tree, compiled twice by a caller
   that either passes the vector the first call filled or another one. *)

Offsets == (0..MaxOffset) \cup {10}

InitialParams == {<<>>, <<Null>>, <<Text("John")>>}

CallRecord(k, before, r) == [offset |-> k, before |-> before, sql |-> r.sql, after |-> r.params]

WhereInit ==
    /\ BuilderIdle /\ ResultIdle /\ DriverIdle
    /\ w_tree \in {Some(t) : t \in TreesUpTo(MaxLeaves)}
    /\ w_params \in InitialParams
    /\ w_first = None /\ w_second = None

\* clause.build_sql(k, &mut params)
WhereBuild(k) ==
    /\ w_tree # None
    /\ w_second = None
    /\ LET r == WhereClause_build_sql(w_tree[1], k, w_params)
       IN /\ w_params' = r.params
          /\ IF w_first = None
             THEN w_first' = Some(CallRecord(k, w_params, r)) /\ w_second' = w_second
             ELSE w_second' = Some(CallRecord(k, w_params, r)) /\ w_first' = w_first
    /\ UNCHANGED <<w_tree, builder_vars, result_vars, driver_vars>>

\* The caller takes another vector for the second call.
OtherParams(p) ==
    /\ w_first # None
    /\ w_second = None
    /\ w_params' = p
    /\ UNCHANGED <<w_tree, w_first, w_second, builder_vars, result_vars, driver_vars>>

WhereNext ==
    \/ \E k \in Offsets : WhereBuild(k)
    \/ \E p \in InitialParams : OtherParams(p)

SpecWhere == WhereInit /\ [][WhereNext]_vars

-----------------------------------------------------------------------------
(* The result layer: a raw result is materialized, narrowed to one row, read. *)

ColumnNames == {"id", "name"}
CellValues == {"1", "Alice"}
GetColumns == {UsersId, UsersName, OrdersId, MissingColumn}

RawResults ==
    {RawQueryResult_new(cols, rows) :
        cols \in SeqsUpTo(ColumnNames, MaxWidth),
        rows \in SeqsUpTo(SeqsUpTo(CellValues, MaxWidth), MaxRows)}

ResultInit ==
    /\ BuilderIdle /\ WhereIdle /\ DriverIdle
    /\ raw \in {Some(r) : r \in RawResults}
    /\ result = None /\ row_out = None /\ get_out = {} /\ cell_out = None

FromRaw ==
    /\ raw # None
    /\ result = None
    /\ result' = Some(QueryResult_from_raw(raw[1]))
    /\ UNCHANGED <<raw, row_out, get_out, cell_out, builder_vars, where_vars, driver_vars>>

SingleRow ==
    /\ result # None
    /\ row_out = None
    /\ row_out' = Some(QueryResult_single_row(result[1]))
    /\ UNCHANGED <<raw, result, get_out, cell_out, builder_vars, where_vars, driver_vars>>

Get(column) ==
    /\ row_out # None
    /\ row_out[1].ok
    /\ get_out' = get_out \cup {[column |-> column, res |-> Row_get(row_out[1].val, column)]}
    /\ UNCHANGED <<raw, result, row_out, cell_out, builder_vars, where_vars, driver_vars>>

\* result.rows_ref()[row].get(column), rows counted from 1; one such read is
\* followed per run.
RowsRefGet(row, column) ==
    /\ result # None
    /\ cell_out = None
    /\ row \in 1..QueryResult_len(result[1])
    /\ cell_out' = Some([row |-> row, column |-> column,
                         res |-> Row_get(result[1].rows[row], column)])
    /\ UNCHANGED <<raw, result, row_out, get_out, builder_vars, where_vars, driver_vars>>

ResultNext ==
    \/ FromRaw
    \/ SingleRow
    \/ \E column \in GetColumns : Get(column)
    \/ \E row \in 1..MaxRows, column \in GetColumns : RowsRefGet(row, column)

SpecResult == ResultInit /\ [][ResultNext]_vars

-----------------------------------------------------------------------------
(* InMemoryTestDriver shared by the builders of one Querier.  The driver is
   configured, put behind its Arc, and then each task takes a builder from the
   Querier and executes it.  Inside InMemoryTestDriver::execute the two mutexes
   are taken one after the other, so the push and the pop are separate steps. *)

MaxTasks == 2         \* builders executed against one driver
MaxQueued == 2        \* responses queued before the driver is shared

Tasks == 1..MaxTasks

\* InMemoryTestResponseBuilder: columns(..).row(..).build()
DriverResponses ==
    {RawQueryResult_new(<<"id">>, <<<<"1">>>>),
     RawQueryResult_new(<<"name">>, <<<<"Alice">>>>)}

DefaultResponses == {RawQueryResult_new(<<"id">>, <<>>)}

\* The builders the tasks obtain: select().columns(..).from(..)[.where_(..).limit(..)]
BuilderValue(cols, T, wc, lim) ==
    [columns |-> [i \in 1..Len(cols) |-> ColumnRef_from_column(cols[i])],
     table |-> IF T = None THEN None ELSE Some(Table_qualified_name(T[1])),
     where_clause |-> wc, limit |-> lim]

DriverBuilders ==
    {BuilderValue(<<UsersId>>, Some(Users), None, None),
     BuilderValue(<<UsersName>>, Some(Users), Some(Eq(UsersId, Int32(1))), Some(10)),
     BuilderValue(<<>>, Some(Users), None, None)}

DriverInit ==
    /\ BuilderIdle /\ WhereIdle /\ ResultIdle
    /\ sched \in {"sequential", "concurrent"}
    /\ d_shared = FALSE
    /\ d_responses = <<>> /\ d_recorded = <<>> /\ d_default = RawQueryResult_empty
    /\ queued = <<>> /\ started = <<>>
    /\ tasks = [t \in Tasks |-> TaskIdle]

\* InMemoryTestDriver::with_response
With_response(response) ==
    /\ ~d_shared
    /\ Len(queued) < MaxQueued
    /\ d_responses' = Append(d_responses, response)
    /\ queued' = Append(queued, response)
    /\ UNCHANGED <<sched, d_shared, d_recorded, d_default, started, tasks>>
    /\ UNCHANGED <<builder_vars, where_vars, result_vars>>

\* InMemoryTestDriver::with_responses
With_responses(responses) ==
    /\ ~d_shared
    /\ Len(queued) + Len(responses) <= MaxQueued
    /\ d_responses' = d_responses \o responses
    /\ queued' = queued \o responses
    /\ UNCHANGED <<sched, d_shared, d_recorded, d_default, started, tasks>>
    /\ UNCHANGED <<builder_vars, where_vars, result_vars>>

\* InMemoryTestDriver::with_default_response
With_default_response(response) ==
    /\ ~d_shared
    /\ d_default' = response
    /\ UNCHANGED <<sched, d_shared, d_responses, d_recorded, queued, started, tasks>>
    /\ UNCHANGED <<builder_vars, where_vars, result_vars>>

\* Arc::new(driver), PgRsClient::with_driver, client.querier()
Share ==
    /\ ~d_shared
    /\ d_shared' = TRUE
    /\ UNCHANGED <<sched, d_responses, d_recorded, d_default, queued, started, tasks>>
    /\ UNCHANGED <<builder_vars, where_vars, result_vars>>

InDriver(t) == tasks[t].pc \in {"record", "respond"}

\* querier.select() and the setters: task t holds builder value b.
Select(t, b) ==
    /\ d_shared
    /\ tasks[t].pc = "idle"
    /\ tasks' = [tasks EXCEPT ![t].pc = "built", ![t].builder = Some(b)]
    /\ UNCHANGED <<sched, d_shared, d_responses, d_recorded, d_default, queued, started>>
    /\ UNCHANGED <<builder_vars, where_vars, result_vars>>

\* SelectBuilder::execute up to the driver call: let (sql, params) = self.build_sql()?
\* A caller that awaits each execute in turn starts none while another is running.
ExecuteCompile(t) ==
    /\ tasks[t].pc = "built"
    /\ sched = "sequential" => \A u \in Tasks : ~InDriver(u)
    /\ started' = Append(started, t)
    /\ LET b == tasks[t].builder[1]
           built == SelectBuilder_build_sql(b.columns, b.table, b.where_clause, b.limit)
       IN tasks' = IF built.ok
                   THEN [tasks EXCEPT ![t].pc = "record", ![t].query = Some(built.val)]
                   ELSE [tasks EXCEPT ![t].pc = "done", ![t].outcome = Some(Err(built.err))]
    /\ UNCHANGED <<sched, d_shared, d_responses, d_recorded, d_default, queued>>
    /\ UNCHANGED <<builder_vars, where_vars, result_vars>>

\* Faulty variants: the parameters are not recorded; only the latest query is kept.
DriverRecord_sqlOnly(t) ==
    /\ tasks[t].pc = "record"
    /\ d_recorded' = Append(d_recorded, [sql |-> tasks[t].query[1].sql, params |-> <<>>])
    /\ tasks' = [tasks EXCEPT ![t].pc = "respond", ![t].pos = Len(d_recorded) + 1]
    /\ UNCHANGED <<sched, d_shared, d_responses, d_default, queued, started>>
    /\ UNCHANGED <<builder_vars, where_vars, result_vars>>
DriverRecord_keepsLast(t) ==
    /\ tasks[t].pc = "record"
    /\ d_recorded' = <<tasks[t].query[1]>>
    /\ tasks' = [tasks EXCEPT ![t].pc = "respond", ![t].pos = 1]
    /\ UNCHANGED <<sched, d_shared, d_responses, d_default, queued, started>>
    /\ UNCHANGED <<builder_vars, where_vars, result_vars>>
\* InMemoryTestDriver::execute, first statement: recorded_queries.lock().push(..)
DriverRecord(t) ==
    /\ tasks[t].pc = "record"
    /\ d_recorded' = Append(d_recorded, tasks[t].query[1])
    /\ tasks' = [tasks EXCEPT ![t].pc = "respond", ![t].pos = Len(d_recorded) + 1]
    /\ UNCHANGED <<sched, d_shared, d_responses, d_default, queued, started>>
    /\ UNCHANGED <<builder_vars, where_vars, result_vars>>

\* Faulty variant: the response queued last is taken (pop_back).
DriverRespond_lifo(t) ==
    /\ tasks[t].pc = "respond"
    /\ LET n == Len(d_responses)
           response == IF n > 0 THEN d_responses[n] ELSE d_default
       IN /\ d_responses' = IF n > 0 THEN SubSeq(d_responses, 1, n - 1) ELSE d_responses
          /\ tasks' = [tasks EXCEPT ![t].pc = "done",
                                    ![t].response = Some(response),
                                    ![t].outcome = Some(Ok(QueryResult_from_raw(response)))]
    /\ UNCHANGED <<sched, d_shared, d_recorded, d_default, queued, started>>
    /\ UNCHANGED <<builder_vars, where_vars, result_vars>>
\* InMemoryTestDriver::execute, second statement: responses.lock().pop_front()
\* or the default; then SelectBuilder::execute returns Ok(from_raw(raw_result)).
DriverRespond(t) ==
    /\ tasks[t].pc = "respond"
    /\ LET response == IF d_responses # <<>> THEN Head(d_responses) ELSE d_default
       IN /\ d_responses' = IF d_responses # <<>> THEN Tail(d_responses) ELSE d_responses
          /\ tasks' = [tasks EXCEPT ![t].pc = "done",
                                    ![t].response = Some(response),
                                    ![t].outcome = Some(Ok(QueryResult_from_raw(response)))]
    /\ UNCHANGED <<sched, d_shared, d_recorded, d_default, queued, started>>
    /\ UNCHANGED <<builder_vars, where_vars, result_vars>>

DriverNext ==
    \/ \E response \in DriverResponses : With_response(response)
    \/ \E responses \in SeqsUpTo(DriverResponses, MaxQueued) \ {<<>>} : With_responses(responses)
    \/ \E response \in DefaultResponses : With_default_response(response)
    \/ Share
    \/ \E t \in Tasks, b \in DriverBuilders : Select(t, b)
    \/ \E t \in Tasks : ExecuteCompile(t)
    \/ \E t \in Tasks : DriverRecord(t)
    \/ \E t \in Tasks : DriverRespond(t)

SpecDriver == DriverInit /\ [][DriverNext]_vars

-----------------------------------------------------------------------------
(* Reading SQL text back: helpers of the properties below *)

CharAt(s, i) == SubSeq(s, i, i)
IsDigit(c) == \E d \in 0..9 : CharAt("0123456789", d + 1) = c
DigitValue(c) == CHOOSE d \in 0..9 : CharAt("0123456789", d + 1) = c

StartsWith(s, pre) == Len(pre) <= Len(s) /\ SubSeq(s, 1, Len(pre)) = pre
EndsWith(s, suf) == Len(suf) <= Len(s) /\ SubSeq(s, Len(s) - Len(suf) + 1, Len(s)) = suf

\* The positions at which sub occurs in s.
Occurrences(s, sub) ==
    {i \in 1..(Len(s) - Len(sub) + 1) : SubSeq(s, i, i + Len(sub) - 1) = sub}

\* The end of the digit run that starts at position i (i - 1 when there is none).
RECURSIVE DigitsEnd(_, _)
DigitsEnd(s, i) ==
    IF i <= Len(s) /\ IsDigit(CharAt(s, i)) THEN DigitsEnd(s, i + 1) ELSE i - 1

RECURSIVE ParseDigits(_, _, _, _)
ParseDigits(s, i, j, acc) ==
    IF i > j THEN acc ELSE ParseDigits(s, i + 1, j, acc * 10 + DigitValue(CharAt(s, i)))

\* The positions of the "$" of the $n placeholders of s, in ascending order.
PlaceholderStarts(s) ==
    {i \in 1..(Len(s) - 1) : CharAt(s, i) = "$" /\ IsDigit(CharAt(s, i + 1))}

RECURSIVE Ascending(_)
Ascending(S) ==
    IF S = {} THEN <<>>
    ELSE LET m == CHOOSE x \in S : \A y \in S : x <= y
         IN <<m>> \o Ascending(S \ {m})

\* The numbers of the $n placeholders of s, read left to right.
Placeholders(s) ==
    LET at == Ascending(PlaceholderStarts(s))
    IN [k \in 1..Len(at) |-> ParseDigits(s, at[k] + 1, DigitsEnd(s, at[k] + 1), 0)]

\* s with the number of every $n placeholder left out.
RECURSIVE SkeletonFrom(_, _, _, _)
SkeletonFrom(s, at, k, pos) ==
    IF k > Len(at) THEN SubSeq(s, pos, Len(s))
    ELSE SubSeq(s, pos, at[k]) \o SkeletonFrom(s, at, k + 1, DigitsEnd(s, at[k] + 1) + 1)

Skeleton(s) == SkeletonFrom(s, Ascending(PlaceholderStarts(s)), 1, 1)

RECURSIVE JoinNames(_)
JoinNames(names) ==
    IF Len(names) = 0 THEN ""
    ELSE IF Len(names) = 1 THEN names[1]
    ELSE JoinNames(SubSeq(names, 1, Len(names) - 1)) \o ", " \o names[Len(names)]

QualifiedNames(cols) == [i \in 1..Len(cols) |-> cols[i].table \o "." \o cols[i].column]

LeafCount(t) == Len(LeafValues(t))

\* Every result the current builder value has produced: what build_sql returned
\* to the caller, and what execute passed through.
Executed == phase = "executed"

-----------------------------------------------------------------------------
(* Properties of the builder, under Spec *)

\* C1: a builder whose column list is empty compiles to NoColumnsSpecified,
\* whatever its table, predicate and limit are, and executing it returns that
\* error without any call of the driver.
C1_NoColumns ==
    Len(columns) = 0 =>
        /\ \A i \in DOMAIN compiled : compiled[i] = Err(NoColumnsSpecified)
        /\ Executed => outcome = Some(Err(NoColumnsSpecified)) /\ driver_calls = <<>>

C1_Witness ==
    /\ Executed /\ Len(columns) = 0 /\ table = None
    /\ where_clause # None /\ limit # None
    /\ outcome = Some(Err(NoColumnsSpecified)) /\ driver_calls = <<>>

\* C2: a builder with columns and no table compiles to NoTableSpecified,
\* whatever its predicate and limit are, and executing it calls no driver.
C2_NoTable ==
    (Len(columns) > 0 /\ table = None) =>
        /\ \A i \in DOMAIN compiled : compiled[i] = Err(NoTableSpecified)
        /\ Executed => outcome = Some(Err(NoTableSpecified)) /\ driver_calls = <<>>

C2_Witness ==
    /\ Executed /\ Len(columns) > 0 /\ table = None
    /\ where_clause # None /\ limit # None
    /\ outcome = Some(Err(NoTableSpecified)) /\ driver_calls = <<>>

\* C3: with columns and a table and neither predicate nor limit, the SQL is
\* "SELECT " + the qualified column names joined by ", " in the order given,
\* duplicates kept, + " FROM " + table, and there are no parameters.
SimpleSelect ==
    Ok([sql |-> "SELECT " \o JoinNames(QualifiedNames(columns)) \o " FROM " \o table[1],
        params |-> <<>>])

C3_SimpleSelect ==
    (Len(columns) > 0 /\ table # None /\ where_clause = None /\ limit = None) =>
        /\ \A i \in DOMAIN compiled : compiled[i] = SimpleSelect
        /\ Executed => driver_calls = <<SimpleSelect.val>>

C3_Witness ==
    /\ Executed /\ where_clause = None /\ limit = None
    /\ columns = <<ColumnRef_from_column(OrdersId), ColumnRef_from_column(OrdersId)>>
    /\ driver_calls = <<[sql |-> "SELECT orders.id, orders.id FROM users", params |-> <<>>]>>

\* What the current builder value compiled to: the results build_sql returned
\* and, once executed, the query the driver received.
Compilations ==
    {compiled[i] : i \in DOMAIN compiled} \cup {Ok(driver_calls[i]) : i \in DOMAIN driver_calls}

AllDigits(s) == Len(s) > 0 /\ \A i \in 1..Len(s) : IsDigit(CharAt(s, i))

ClauseOrder(sql, params) ==
    LET from == " FROM " \o table[1]
        fpos == Occurrences(sql, " FROM ")
        wpos == Occurrences(sql, " WHERE ")
        lpos == Occurrences(sql, " LIMIT ")
    IN /\ StartsWith(sql, "SELECT ")
       /\ Cardinality(fpos) = 1
       /\ \A f \in fpos :
            /\ SubSeq(sql, f, f + Len(from) - 1) = from
            /\ IF where_clause = None
               THEN wpos = {} /\ Placeholders(sql) = <<>> /\ params = <<>>
               ELSE /\ wpos = {f + Len(from)}
                    /\ Placeholders(sql) = [n \in 1..LeafCount(where_clause[1]) |-> n]
                    /\ params = LeafValues(where_clause[1])
            /\ IF limit = None
               THEN lpos = {} /\ (where_clause = None => Len(sql) = f + Len(from) - 1)
               ELSE /\ Cardinality(lpos) = 1
                    /\ \A l \in lpos :
                         /\ l > f
                         /\ \A w \in wpos : l > w
                         /\ where_clause = None => l = f + Len(from)
                         /\ AllDigits(SubSeq(sql, l + Len(" LIMIT "), Len(sql)))

\* C6: with columns and table set, the SQL reads SELECT, FROM, WHERE, LIMIT in
\* that order: " WHERE <fragment>" is there iff a predicate is set, right after
\* FROM <table> (schema.table for a table with a schema); " LIMIT <n>" is there
\* iff a limit is set, and last; the predicate's placeholders start at $1.
C6_ClauseOrder ==
    (Len(columns) > 0 /\ table # None) =>
        /\ table[1] \in {"users", "public.orders"}
        /\ \A c \in Compilations : c.ok /\ ClauseOrder(c.val.sql, c.val.params)

C6_Witness ==
    /\ Executed /\ where_clause # None /\ limit # None
    /\ driver_calls =
         <<[sql |-> "SELECT users.id, users.name FROM users WHERE users.name = $1 LIMIT 10",
            params |-> <<Text("John")>>]>>

\* C7: the results of compiling one builder value twice are identical, SQL and
\* parameters alike, and each is what its columns, table, predicate and limit
\* determine: compiling leaves the builder as it was.
C7_Idempotent ==
    /\ \A i \in DOMAIN compiled, j \in DOMAIN compiled : compiled[i] = compiled[j]
    /\ \A i \in DOMAIN compiled :
         compiled[i].ok <=> (Len(columns) > 0 /\ table # None)

C7_Witness ==
    /\ Len(compiled) = 2 /\ compiled[1].ok /\ compiled[2] = compiled[1]
    /\ where_clause # None /\ limit # None
    /\ Len(compiled[1].val.params) = 3

\* The builder passes validation: it has columns and a table.
Compiles == Len(columns) > 0 /\ table # None

\* C12: execute returns a compile failure without calling the driver; it
\* returns a driver failure as the driver gave it, variant and detail, and no
\* QueryResult; it returns Ok only when the builder compiled and the driver,
\* called once, answered Ok.
C12_ShortCircuit ==
    Executed =>
        /\ ~Compiles =>
              /\ outcome \in {Some(Err(NoColumnsSpecified)), Some(Err(NoTableSpecified))}
              /\ driver_calls = <<>> /\ driver_answer = None
        /\ Compiles =>
              /\ Len(driver_calls) = 1 /\ driver_answer # None
              /\ ~driver_answer[1].ok =>
                    /\ outcome = Some(Err(driver_answer[1].err))
                    /\ outcome[1].err.kind \in {"ConnectionFailed", "QueryFailed"}
        /\ outcome[1].ok <=> (Compiles /\ driver_answer # None /\ driver_answer[1].ok)

C12_Witness ==
    /\ Executed /\ Compiles /\ Len(driver_calls) = 1
    /\ driver_answer = Some(Err(QueryFailed("syntax error")))
    /\ outcome = Some(Err(QueryFailed("syntax error")))

\* C19: with a limit n set, the SQL ends with " LIMIT " and the decimal text of
\* n, for n = 0 too; what precedes it, and the parameter list, are those of the
\* same builder without a limit: the limit adds no parameter and moves no
\* placeholder number.
C19_LimitInline ==
    (Compiles /\ limit # None) =>
        \A c \in Compilations :
            LET suffix == " LIMIT " \o ToString(limit[1])
                bare == SelectBuilder_build_sql(columns, table, where_clause, None)
            IN /\ c.ok /\ bare.ok
               /\ EndsWith(c.val.sql, suffix)
               /\ SubSeq(c.val.sql, 1, Len(c.val.sql) - Len(suffix)) = bare.val.sql
               /\ Occurrences(bare.val.sql, " LIMIT ") = {}
               /\ c.val.params = bare.val.params
               /\ Placeholders(c.val.sql) = [n \in 1..Len(c.val.params) |-> n]

C19_Witness ==
    /\ Executed /\ limit = Some(0)
    /\ driver_calls = <<[sql |-> "SELECT users.id FROM users WHERE users.id = $1 LIMIT 0",
                         params |-> <<Int32(1)>>]>>

\* The fields a builder holds after the latest call of each setter alone.
FieldsOf(args) ==
    [columns |-> IF args.columns = None THEN <<>>
                 ELSE [i \in 1..Len(args.columns[1]) |->
                          [table |-> args.columns[1][i].table_name,
                           column |-> args.columns[1][i].column_name]],
     table |-> IF args.from = None THEN None
               ELSE IF args.from[1].schema = None THEN Some(args.from[1].table_name)
               ELSE Some(args.from[1].schema[1] \o "." \o args.from[1].table_name),
     where_clause |-> args.where_,
     limit |-> args.limit]

\* C21: whatever setters were called on the builder, in whatever order and how
\* often, each field holds what the latest call of its own setter gave it (its
\* initial value when that setter was never called); the setters call no
\* driver; and what the builder compiles to is what these final fields give.
C21_LastCallWins ==
    /\ columns = FieldsOf(last_args).columns
    /\ table = FieldsOf(last_args).table
    /\ where_clause = FieldsOf(last_args).where_clause
    /\ limit = FieldsOf(last_args).limit
    /\ phase = "building" => (outcome = None /\ driver_calls = <<>> /\ driver_answer = None)
    /\ \A c \in Compilations :
         c = SelectBuilder_build_sql(FieldsOf(last_args).columns, FieldsOf(last_args).table,
                                     last_args.where_, last_args.limit)

C21_Witness ==
    /\ Executed
    /\ last_args.again
    /\ last_args = [columns |-> Some(<<UsersName>>), from |-> Some(Orders),
                    where_ |-> Some(Eq(UsersId, Int32(1))), limit |-> Some(0), again |-> TRUE]
    /\ driver_calls = <<[sql |-> "SELECT users.name FROM public.orders WHERE users.id = $1 LIMIT 0",
                         params |-> <<Int32(1)>>]>>

-----------------------------------------------------------------------------
(* Properties of WhereClause::build_sql, under SpecWhere *)

WhereCalls == {c[1] : c \in {w_first, w_second} \ {None}}

Appended(c) == SubSeq(c.after, Len(c.before) + 1, Len(c.after))

\* C4: compiled at offset 0 into an empty list, a tree has as many $n
\* placeholders as Eq leaves, numbered 1, 2, ..., leafCount from left to right,
\* and the list holds the leaf values in that same order.
C4_Numbering ==
    \A c \in WhereCalls :
        (c.offset = 0 /\ c.before = <<>>) =>
            /\ Placeholders(c.sql) = [n \in 1..LeafCount(w_tree[1]) |-> n]
            /\ c.after = LeafValues(w_tree[1])

C4_Witness ==
    /\ w_tree = Some(And(Or(Eq(UsersName, Text("John")), Eq(UsersId, Int32(1))),
                         Eq(UsersId, Int32(1))))
    /\ w_first # None
    /\ w_first[1].offset = 0 /\ w_first[1].before = <<>>
    /\ w_first[1].sql = "((users.name = $1) OR (users.id = $2)) AND (users.id = $3)"
    /\ w_first[1].after = <<Text("John"), Int32(1), Int32(1)>>

\* C5: compiled into the same list, a tree at offset k > 0 gives the fragment it
\* gives at offset 0 with every placeholder number increased by k, in the same
\* order, and appends the same values.
C5_OffsetShift ==
    \A c0 \in WhereCalls, ck \in WhereCalls :
        (c0.offset = 0 /\ ck.offset > 0 /\ c0.before = ck.before) =>
            /\ Skeleton(ck.sql) = Skeleton(c0.sql)
            /\ Placeholders(ck.sql)
                  = [i \in 1..Len(Placeholders(c0.sql)) |-> Placeholders(c0.sql)[i] + ck.offset]
            /\ ck.after = c0.after

C5_Witness ==
    /\ w_first # None /\ w_second # None
    /\ LeafCount(w_tree[1]) = 3
    /\ w_first[1].offset = 0 /\ w_second[1].offset = 10
    /\ w_first[1].before = <<Null>> /\ w_second[1].before = <<Null>>
    /\ Placeholders(w_first[1].sql) = <<2, 3, 4>>
    /\ Placeholders(w_second[1].sql) = <<12, 13, 14>>

C16_FirstIsOffset ==
    \A c \in WhereCalls :
        c.before = <<>> => Placeholders(c.sql)[1] = c.offset

\* What the node of call c compiles to, given its operator word, from the
\* fragments of its operands: the left one against the incoming list, the
\* right one against the list the left one leaves.
NodeFormat(c, t, word) ==
    LET l == WhereClause_build_sql(t.left, c.offset, c.before)
        r == WhereClause_build_sql(t.right, c.offset, l.params)
        ln == Placeholders(l.sql)
        rn == Placeholders(r.sql)
    IN /\ c.sql = "(" \o l.sql \o ") " \o word \o " (" \o r.sql \o ")"
       /\ c.after = r.params
       /\ Placeholders(c.sql) = ln \o rn
       /\ \A i \in 1..Len(ln), j \in 1..Len(rn) : ln[i] < rn[j]
       /\ rn[1] = ln[Len(ln)] + 1

\* C17: And(l, r) compiles to "(<l_sql>) AND (<r_sql>)" and Or(l, r) to
\* "(<l_sql>) OR (<r_sql>)", l before r against the same growing list, so that
\* r's placeholder numbers follow l's directly; an Eq leaf compiles to
\* "<table>.<column> = $<n>" without parentheses.
C17_NodeFormat ==
    \A c \in WhereCalls :
        LET t == w_tree[1]
        IN CASE t.op = "And" -> NodeFormat(c, t, "AND")
             [] t.op = "Or" -> NodeFormat(c, t, "OR")
             [] t.op = "Eq" ->
                  /\ c.sql = t.col.table \o "." \o t.col.column \o " = $"
                                \o ToString(c.offset + Len(c.before) + 1)
                  /\ Occurrences(c.sql, "(") = {} /\ Occurrences(c.sql, ")") = {}

C17_Witness ==
    /\ w_tree = Some(Or(Eq(UsersName, Text("John")),
                        And(Eq(UsersId, Int32(1)), Eq(UsersName, Text("John")))))
    /\ w_first # None
    /\ w_first[1].offset = 0 /\ w_first[1].before = <<Null>>
    /\ w_first[1].sql = "(users.name = $2) OR ((users.id = $3) AND (users.name = $4))"

\* C18: build_sql only appends: the entries the list held before the call stay
\* in place, and one value per Eq leaf is appended in traversal order, equal
\* values and values already in the list included, so the list grows by
\* leafCount.
C18_AppendOnly ==
    \A c \in WhereCalls :
        /\ Len(c.after) = Len(c.before) + LeafCount(w_tree[1])
        /\ SubSeq(c.after, 1, Len(c.before)) = c.before
        /\ Appended(c) = LeafValues(w_tree[1])

C18_Witness ==
    /\ w_tree = Some(And(Eq(UsersName, Text("John")), Eq(UsersName, Text("John"))))
    /\ w_first # None
    /\ w_first[1].before = <<Text("John")>>
    /\ w_first[1].after = <<Text("John"), Text("John"), Text("John")>>

-----------------------------------------------------------------------------
(* Properties of the result layer, under SpecResult *)

\* C9: single_row returns the row when the result holds exactly one row, and
\* for every other row count c fails with UnexpectedRowCount{expected: 1,
\* actual: c}.
C9_SingleRow ==
    row_out # None =>
        LET c == Len(raw[1].rows)
        IN IF c = 1
           THEN row_out[1].ok /\ row_out[1].val = result[1].rows[1]
           ELSE row_out[1] = Err(UnexpectedRowCount(1, c))

C9_Witness ==
    /\ Len(raw[1].rows) = 2
    /\ row_out = Some(Err(UnexpectedRowCount(1, 2)))

\* The positions of the raw row that carry a value for the column name.
Positions(name) ==
    {i \in 1..Min(Len(raw[1].columns), Len(raw[1].rows[1])) : raw[1].columns[i] = name}

\* C10: Row::get finds a value by the capability's column name alone, whatever
\* its table name is, and when the row has no such name fails with
\* ColumnNotFound carrying table.column.
C10_Get ==
    \A g \in get_out :
        LET at == Positions(g.column.column_name)
        IN IF at # {}
           THEN g.res = Ok(raw[1].rows[1][CHOOSE i \in at : \A j \in at : j <= i])
           ELSE g.res = Err(ColumnNotFound(g.column.table_name \o "." \o g.column.column_name))

C10_Witness ==
    /\ raw = Some(RawQueryResult_new(<<"id">>, <<<<"1">>>>))
    /\ get_out = {[column |-> UsersId, res |-> Ok("1")],
                   [column |-> OrdersId, res |-> Ok("1")],
                   [column |-> UsersName, res |-> Err(ColumnNotFound("users.name"))],
                   [column |-> MissingColumn, res |-> Err(ColumnNotFound("users.missing"))]}

\* A raw result as drivers produce it: distinct column names, and every row as
\* long as the column list.
WellFormed(r) ==
    /\ \A i \in 1..Len(r.columns), j \in 1..Len(r.columns) :
          r.columns[i] = r.columns[j] => i = j
    /\ \A i \in 1..Len(r.rows) : Len(r.rows[i]) = Len(r.columns)

\* C11: for a raw result with distinct column names and full rows, from_raw
\* keeps the number of rows (len, is_empty) and the column list, and reading
\* the column named columns[j] of row i returns raw.rows[i][j].
C11_RoundTrip ==
    (result # None /\ WellFormed(raw[1])) =>
        /\ QueryResult_len(result[1]) = Len(raw[1].rows)
        /\ QueryResult_is_empty(result[1]) <=> (raw[1].rows = <<>>)
        /\ result[1].columns = raw[1].columns
        /\ cell_out # None =>
              \A j \in 1..Len(raw[1].columns) :
                  raw[1].columns[j] = cell_out[1].column.column_name
                      => cell_out[1].res = Ok(raw[1].rows[cell_out[1].row][j])

C11_Witness ==
    /\ raw = Some(RawQueryResult_new(<<"id", "name">>, <<<<"1", "Alice">>, <<"Alice", "1">>>>))
    /\ result # None /\ QueryResult_len(result[1]) = 2
    /\ cell_out = Some([row |-> 2, column |-> UsersName, res |-> Ok("1")])

\* The positions of raw row i that carry a value for the column name: those
\* within both the column list and the row.
Paired(i, name) ==
    {j \in 1..Min(Len(raw[1].columns), Len(raw[1].rows[i])) : raw[1].columns[j] = name}

Last(S) == CHOOSE j \in S : \A k \in S : k <= j

\* C22: from_raw gives a result for every raw result, well formed or not: row i
\* holds exactly the names of the first min(|columns|, |values|) positions,
\* each with the value of its last such position, so its len is at most that
\* minimum and values beyond the column list are dropped; reading a name that
\* has no position within the row's values fails with ColumnNotFound.
C22_Malformed ==
    result # None =>
        /\ Len(result[1].rows) = Len(raw[1].rows)
        /\ \A i \in 1..Len(raw[1].rows) :
             LET row == result[1].rows[i]
                 m == Min(Len(raw[1].columns), Len(raw[1].rows[i]))
             IN /\ DOMAIN row.values = {raw[1].columns[j] : j \in 1..m}
                /\ \A name \in DOMAIN row.values :
                     row.values[name] = raw[1].rows[i][Last(Paired(i, name))]
                /\ Row_len(row) <= m
        /\ cell_out # None =>
             LET at == Paired(cell_out[1].row, cell_out[1].column.column_name)
             IN IF at = {}
                THEN cell_out[1].res
                       = Err(ColumnNotFound(cell_out[1].column.table_name \o "."
                                              \o cell_out[1].column.column_name))
                ELSE cell_out[1].res = Ok(raw[1].rows[cell_out[1].row][Last(at)])

C22_Witness ==
    /\ raw = Some(RawQueryResult_new(<<"id", "id">>, <<<<"1", "Alice">>, <<>>>>))
    /\ result # None
    /\ result[1].rows[1].values = ("id" :> "Alice")
    /\ Row_len(result[1].rows[2]) = 0
    /\ cell_out = Some([row |-> 2, column |-> UsersId, res |-> Err(ColumnNotFound("users.id"))])

-----------------------------------------------------------------------------
(* Properties of the shared InMemoryTestDriver, under SpecDriver *)

\* What the builder of task t compiles to, taken alone.
Compiled(t) ==
    LET b == tasks[t].builder[1]
    IN SelectBuilder_build_sql(b.columns, b.table, b.where_clause, b.limit)

\* The tasks whose execute compiled, in the order the executes began.
DriverCalls == SelectSeq(started, LAMBDA t : Compiled(t).ok)

CallIndex(t) == CHOOSE k \in 1..Len(DriverCalls) : DriverCalls[k] = t

\* No execute is between its start and its return.
Quiescent == \A t \in Tasks : ~InDriver(t)

\* C13: executes run one after the other: recorded_queries is the list of the
\* (sql, params) the compiling executes produced, in execution order, one entry
\* per such execute; an execute that fails to compile adds none.
C13_RecordedInOrder ==
    (sched = "sequential" /\ Quiescent) =>
        d_recorded = [k \in 1..Len(DriverCalls) |-> Compiled(DriverCalls[k]).val]

C13_Witness ==
    /\ sched = "sequential" /\ started = <<2, 1>>
    /\ tasks[1].pc = "done" /\ tasks[2].pc = "done"
    /\ d_recorded =
         <<[sql |-> "SELECT users.name FROM users WHERE users.id = $1 LIMIT 10",
            params |-> <<Int32(1)>>],
           [sql |-> "SELECT users.id FROM users", params |-> <<>>]>>

\* C14: in a sequential run, the k-th call of the driver returns the k-th
\* response queued by with_response / with_responses, or the default response
\* when fewer than k were queued, and the queue holds what no call has taken.
C14_Fifo ==
    sched = "sequential" =>
        /\ \A t \in Tasks :
             tasks[t].response # None =>
                 tasks[t].response[1] = IF CallIndex(t) <= Len(queued)
                                        THEN queued[CallIndex(t)]
                                        ELSE d_default
        /\ (d_shared /\ Quiescent) =>
             d_responses = SubSeq(queued, Min(Len(DriverCalls), Len(queued)) + 1, Len(queued))

C14_Witness ==
    /\ sched = "sequential" /\ started = <<2, 1>>
    /\ queued = <<RawQueryResult_new(<<"name">>, <<<<"Alice">>>>)>>
    /\ d_default = RawQueryResult_new(<<"id">>, <<>>)
    /\ tasks[2].response = Some(RawQueryResult_new(<<"name">>, <<<<"Alice">>>>))
    /\ tasks[1].response = Some(RawQueryResult_new(<<"id">>, <<>>))

\* How many entries of recorded_queries equal q.
Recorded(q) == Cardinality({i \in 1..Len(d_recorded) : d_recorded[i] = q})

\* The tasks whose execute has pushed its query.
Pushed == {t \in Tasks : tasks[t].pc \in {"respond", "done"} /\ tasks[t].query # None}

\* C15: in every interleaving, recorded_queries holds one entry per execute
\* that reached the driver, and as a multiset it is what those builders compile
\* to taken alone.
C15_NoInterference ==
    /\ Len(d_recorded) = Cardinality(Pushed)
    /\ \A i \in 1..Len(d_recorded) :
         Recorded(d_recorded[i])
             = Cardinality({t \in Pushed : Compiled(t) = Ok(d_recorded[i])})
    /\ \A t \in Pushed : Compiled(t).ok /\ Recorded(Compiled(t).val) > 0
    /\ (\A t \in Tasks : tasks[t].pc = "done") =>
         Len(d_recorded) = Cardinality({t \in Tasks : Compiled(t).ok})

C15_Witness ==
    /\ sched = "concurrent"
    /\ tasks[1].pc = "respond" /\ tasks[2].pc = "respond"
    /\ tasks[1].builder = tasks[2].builder
    /\ tasks[1].pos = 2 /\ tasks[2].pos = 1
    /\ Len(d_recorded) = 2

\* C20: the call whose query is at position k of recorded_queries receives the
\* k-th queued response (the default when fewer than k were queued).
C20_RecordAndResponseAtomic ==
    \A t \in Tasks :
        tasks[t].response # None =>
            tasks[t].response[1] = IF tasks[t].pos <= Len(queued)
                                   THEN queued[tasks[t].pos]
                                   ELSE d_default

====
